---- MODULE Spec2Model ----
(***************************************************************************)
(* LP staking front end (ContractProvider, MultiSignPanel, StakingModal,   *)
(* Admin) together with the staking ledger and the governance queue it     *)
(* drives.  The front end is translated from src/.  The ledger and the     *)
(* queue are the LPStaking contract behind `contract.*`: its code is not   *)
(* part of src/ (only its ABI, typings and callers are), so the operators  *)
(* of the section "LPStaking contract" are written from spec.md sections   *)
(* 3, 4 and 7.                                                             *)
(***************************************************************************)
EXTENDS Integers, Sequences, FiniteSets, TLC

\* ------------------------------------------------------------------ bounds

\* Proposals the queue accepts before the model stops proposing.
MaxActions == 2

\* Proposals the queue accepts under SpecLedger.
LedgerMaxActions == 1

\* Proposals the queue accepts under SpecPanel.
PanelMaxActions == 2

\* Proposals the queue accepts under SpecAdmin.
AdminMaxActions == 2

\* Proposals the queue accepts under SpecModal.
ModalMaxActions == 1

\* Rows the weight modal is given.
MaxRows == 2

\* The largest maximum weight the contract reports; the modal's weight
\* fields are given values up to one more.
ModalMaxWeight == 1

\* Ether a wallet stakes in one pool before the model stops it staking.
MaxStake == 1

\* Days the clock advances before the model stops it.
MaxTime == 1

\* Stands for the 10^18 wei of one ether: ethers.parseEther multiplies by
\* it.  The model keeps the scaling and bounds the factor.
WeiPerEther == 2

\* ------------------------------------------------------------ value sets

NULL == "null"

\* Wallet identities; the first three are the signers at deployment.
Identity == {"A", "B", "C", "D"}

InitialSigners == {"A", "B", "C"}

\* LP token addresses: X is a pool at deployment, Y can be added, Z never
\* becomes a pool.
LpToken == {"X", "Y", "Z"}

\* Wallets that stake.
Stakers == {"A", "D"}

Failures ==
  { "NotASigner", "UnknownAction", "AlreadyExecuted", "AlreadyApproved",
    "InsufficientApprovals", "UnknownPool", "PoolExists", "PoolHasStake",
    "InvalidRate", "AlreadySigner", "PoolInactive", "InvalidAmount",
    "InsufficientStake", "Contract not initialized" }

VARIABLES
  contract,    \* ContractProvider: the contract handle, NULL or "connected"
  isLoading,   \* ContractProvider: isLoading
  error,       \* ContractProvider: error, NULL or a message
  chain,       \* the LPStaking contract's storage
  now,         \* block time, in days
  panel,       \* MultiSignPanel: proposals, actionCounter, requiredApprovals, isLoading
  load,        \* MultiSignPanel: the loadContractData call in flight
  handler,     \* MultiSignPanel: the handleApproveAction/handleExecuteAction call in flight
  mempool,     \* transactions sent together: those submitted and those mined
  admin,       \* admin page: its state and the loads it has in flight
  modal        \* UpdatePairWeightModal: its rows, maxWeight, error and load

provider == <<contract, isLoading, error>>

view == <<panel, load, handler>>

vars == <<contract, isLoading, error, chain, now, panel, load, handler, mempool,
          admin, modal>>

\* ------------------------------------------------------ LPStaking contract

\* How a call ends: "ok" or the failure, the storage after it, and the value
\* it returns.
Ok(c) == [res |-> "ok", chain |-> c, value |-> 0]

OkValue(c, v) == [res |-> "ok", chain |-> c, value |-> v]

Fail(e, c) == [res |-> e, chain |-> c, value |-> 0]

RECURSIVE SumActiveWeights(_, _)
SumActiveWeights(pairs, S) ==
  IF S = {} THEN 0
  ELSE LET p == CHOOSE x \in S : TRUE
       IN  (IF pairs[p].isActive THEN pairs[p].weight ELSE 0)
             + SumActiveWeights(pairs, S \ {p})

\* "each recomputes totalWeight before returning"
RecomputeTotalWeight(c) ==
  [c EXCEPT !.totalWeight = SumActiveWeights(c.pairs, DOMAIN c.pairs)]

\* setDailyRewardRate as it would be with eager checkpointing: every position
\* is settled at the old rate before the rate changes.
setDailyRewardRate_settlesAll(c, rate) ==
  IF rate < 0 THEN Fail("InvalidRate", c)
  ELSE Ok([c EXCEPT
             !.dailyRewardRate = rate,
             !.userStakes = [k \in DOMAIN c.userStakes |->
                [c.userStakes[k] EXCEPT
                   !.pendingRewards = @ + (IF k[2] \in DOMAIN c.pairs
                                              /\ c.pairs[k[2]].totalStaked > 0
                                           THEN c.dailyRewardRate ELSE 0)]]])

setDailyRewardRate(c, rate) ==
  IF rate < 0 THEN Fail("InvalidRate", c)
  ELSE Ok([c EXCEPT !.dailyRewardRate = rate])

addPool(c, lpToken, weight) ==
  IF lpToken \in DOMAIN c.pairs THEN Fail("PoolExists", c)
  ELSE Ok(RecomputeTotalWeight(
         [c EXCEPT !.pairs =
            [p \in DOMAIN c.pairs \cup {lpToken} |->
               IF p = lpToken
               THEN [weight |-> weight, isActive |-> TRUE, totalStaked |-> 0]
               ELSE c.pairs[p]]]))

\* A pool that still holds stake is not removed (spec.md section 8 leaves the
\* choice between refusing and settling; section 4.1 has the pool operations
\* settle no position, so the removal is refused).
removePool(c, lpToken) ==
  IF lpToken \notin DOMAIN c.pairs THEN Fail("UnknownPool", c)
  ELSE IF ~c.pairs[lpToken].isActive THEN Fail("PoolInactive", c)
  ELSE IF c.pairs[lpToken].totalStaked > 0 THEN Fail("PoolHasStake", c)
  ELSE Ok(RecomputeTotalWeight([c EXCEPT !.pairs[lpToken].isActive = FALSE]))

\* updateWeights as it would be without the check before the first write: the
\* pairs ahead of the unknown pool are written, then the call fails.
RECURSIVE SetWeightsUntilUnknown(_, _, _, _)
SetWeightsUntilUnknown(pairs, lpTokens, weights, i) ==
  IF i > Len(lpTokens) \/ lpTokens[i] \notin DOMAIN pairs THEN pairs
  ELSE SetWeightsUntilUnknown([pairs EXCEPT ![lpTokens[i]].weight = weights[i]],
                              lpTokens, weights, i + 1)

updateWeights_partial(c, lpTokens, weights) ==
  LET d == RecomputeTotalWeight(
             [c EXCEPT !.pairs = SetWeightsUntilUnknown(c.pairs, lpTokens, weights, 1)])
  IN  IF \E i \in 1..Len(lpTokens) : lpTokens[i] \notin DOMAIN c.pairs
      THEN Fail("UnknownPool", d)
      ELSE Ok(d)

RECURSIVE SetWeights(_, _, _, _)
SetWeights(pairs, lpTokens, weights, i) ==
  IF i > Len(lpTokens) THEN pairs
  ELSE SetWeights([pairs EXCEPT ![lpTokens[i]].weight = weights[i]],
                  lpTokens, weights, i + 1)

updateWeights(c, lpTokens, weights) ==
  IF \E i \in 1..Len(lpTokens) : lpTokens[i] \notin DOMAIN c.pairs
  THEN Fail("UnknownPool", c)
  ELSE Ok(RecomputeTotalWeight(
         [c EXCEPT !.pairs = SetWeights(c.pairs, lpTokens, weights, 1)]))

changeSigner(c, signerOp, who) ==
  IF signerOp = "add"
  THEN IF who \in c.signers THEN Fail("AlreadySigner", c)
       ELSE Ok([c EXCEPT !.signers = @ \cup {who}])
  ELSE IF who \notin c.signers THEN Fail("NotASigner", c)
       ELSE Ok([c EXCEPT !.signers = @ \ {who}])

\* The payload of an action, applied to the ledger or to the signer set.
ApplyPayload(c, a) ==
  CASE a.actionType = "SetDailyRewardRate" -> setDailyRewardRate(c, a.newRate)
    [] a.actionType = "UpdatePairWeights"  -> updateWeights(c, a.lpTokens, a.weights)
    [] a.actionType = "AddPair"            -> addPool(c, a.pairToAdd, a.weightToAdd)
    [] a.actionType = "RemovePair"         -> removePool(c, a.pairToRemove)
    [] a.actionType = "ChangeSigner"       -> changeSigner(c, a.signerOp, a.signerArg)

NoPayload ==
  [actionType |-> "none", newRate |-> 0, lpTokens |-> <<>>, weights |-> <<>>,
   pairToAdd |-> NULL, weightToAdd |-> 0, pairToRemove |-> NULL,
   signerOp |-> NULL, signerArg |-> NULL]

NewAction(id, payload) ==
  [id |-> id, actionType |-> payload.actionType, newRate |-> payload.newRate,
   lpTokens |-> payload.lpTokens, weights |-> payload.weights,
   pairToAdd |-> payload.pairToAdd, weightToAdd |-> payload.weightToAdd,
   pairToRemove |-> payload.pairToRemove, signerOp |-> payload.signerOp,
   signerArg |-> payload.signerArg,
   approvals |-> 0, approvedBy |-> {}, executed |-> FALSE]

propose(c, payload, proposer) ==
  IF proposer \notin c.signers THEN Fail("NotASigner", c)
  ELSE LET id == c.actionCounter + 1
       IN  Ok([c EXCEPT
                 !.actionCounter = id,
                 !.actions = [i \in DOMAIN c.actions \cup {id} |->
                                IF i = id THEN NewAction(id, payload)
                                ELSE c.actions[i]],
                 !.applied = [i \in DOMAIN c.applied \cup {id} |->
                                IF i = id THEN 0 ELSE c.applied[i]]])

\* approve as it would be without the AlreadyApproved check: the count rises
\* again for a signer already in approvedBy.
approve_countsAgain(c, actionId, approver) ==
  IF approver \notin c.signers THEN Fail("NotASigner", c)
  ELSE IF actionId \notin DOMAIN c.actions THEN Fail("UnknownAction", c)
  ELSE IF c.actions[actionId].executed THEN Fail("AlreadyExecuted", c)
  ELSE Ok([c EXCEPT !.actions[actionId].approvals = @ + 1,
                    !.actions[actionId].approvedBy = @ \cup {approver}])

approve(c, actionId, approver) ==
  IF approver \notin c.signers THEN Fail("NotASigner", c)
  ELSE IF actionId \notin DOMAIN c.actions THEN Fail("UnknownAction", c)
  ELSE IF c.actions[actionId].executed THEN Fail("AlreadyExecuted", c)
  ELSE IF approver \in c.actions[actionId].approvedBy
       THEN Fail("AlreadyApproved", c)
  ELSE Ok([c EXCEPT !.actions[actionId].approvals = @ + 1,
                    !.actions[actionId].approvedBy = @ \cup {approver}])

\* applied[id] counts the times the payload of action id was applied; it is
\* history, read by no operation.  A payload that fails ends the call as it
\* ended.
execute(c, actionId) ==
  IF actionId \notin DOMAIN c.actions THEN Fail("UnknownAction", c)
  ELSE IF c.actions[actionId].executed THEN Fail("AlreadyExecuted", c)
  ELSE IF c.actions[actionId].approvals < c.requiredApprovals
       THEN Fail("InsufficientApprovals", c)
  ELSE LET r == ApplyPayload(c, c.actions[actionId])
       IN  IF r.res # "ok" THEN r
           ELSE Ok([r.chain EXCEPT !.actions[actionId].executed = TRUE,
                                   !.applied[actionId] = @ + 1])

\* The position of user in pool lpToken.
Position(c, user, lpToken) == c.userStakes[<<user, lpToken>>]

\* The accrual as it would be without the pool's share of totalWeight.
Accrued_wholeRate(c, t, user, lpToken) ==
  IF lpToken \notin DOMAIN c.pairs THEN 0
  ELSE IF c.totalWeight = 0 \/ c.pairs[lpToken].totalStaked = 0 THEN 0
  ELSE (((t - Position(c, user, lpToken).lastRewardTime) * c.dailyRewardRate)
          * Position(c, user, lpToken).amount) \div c.pairs[lpToken].totalStaked

\* The reward a position earned since its checkpoint, at the current rate and
\* weights; zero when totalWeight or the pool's totalStaked is zero.
Accrued(c, t, user, lpToken) ==
  IF lpToken \notin DOMAIN c.pairs THEN 0
  ELSE IF c.totalWeight = 0 \/ c.pairs[lpToken].totalStaked = 0 THEN 0
  ELSE ((((t - Position(c, user, lpToken).lastRewardTime) * c.dailyRewardRate
            * c.pairs[lpToken].weight) \div c.totalWeight)
          * Position(c, user, lpToken).amount) \div c.pairs[lpToken].totalStaked

pendingRewards(c, t, user, lpToken) ==
  Position(c, user, lpToken).pendingRewards + Accrued(c, t, user, lpToken)

\* Settlement: the accrued reward becomes pendingRewards, the checkpoint moves
\* to now.
Settle(c, t, user, lpToken) ==
  [c EXCEPT !.userStakes[<<user, lpToken>>] =
     [@ EXCEPT !.pendingRewards = pendingRewards(c, t, user, lpToken),
               !.lastRewardTime = t]]

\* stake as it would be with the accrual's divisions unguarded: the call
\* reverts where totalWeight or the pool's totalStaked is zero.
Stake_unguarded(c, t, user, lpToken, amount) ==
  IF amount <= 0 THEN Fail("InvalidAmount", c)
  ELSE IF lpToken \notin DOMAIN c.pairs \/ ~c.pairs[lpToken].isActive
       THEN Fail("PoolInactive", c)
  ELSE IF c.totalWeight = 0 \/ c.pairs[lpToken].totalStaked = 0
       THEN Fail("DivisionByZero", c)
  ELSE Ok([Settle(c, t, user, lpToken) EXCEPT
             !.userStakes[<<user, lpToken>>].amount = @ + amount,
             !.pairs[lpToken].totalStaked = @ + amount])

Stake(c, t, user, lpToken, amount) ==
  IF amount <= 0 THEN Fail("InvalidAmount", c)
  ELSE IF lpToken \notin DOMAIN c.pairs \/ ~c.pairs[lpToken].isActive
       THEN Fail("PoolInactive", c)
  ELSE Ok([Settle(c, t, user, lpToken) EXCEPT
             !.userStakes[<<user, lpToken>>].amount = @ + amount,
             !.pairs[lpToken].totalStaked = @ + amount])

\* unstake as it would be with the pool's total left alone: only the
\* position is lowered.
Unstake_keepsTotal(c, t, user, lpToken, amount) ==
  IF amount <= 0 THEN Fail("InvalidAmount", c)
  ELSE IF amount > Position(c, user, lpToken).amount
       THEN Fail("InsufficientStake", c)
  ELSE Ok([Settle(c, t, user, lpToken) EXCEPT
             !.userStakes[<<user, lpToken>>].amount = @ - amount])

Unstake(c, t, user, lpToken, amount) ==
  IF amount <= 0 THEN Fail("InvalidAmount", c)
  ELSE IF amount > Position(c, user, lpToken).amount
       THEN Fail("InsufficientStake", c)
  ELSE Ok([Settle(c, t, user, lpToken) EXCEPT
             !.userStakes[<<user, lpToken>>].amount = @ - amount,
             !.pairs[lpToken].totalStaked = @ - amount])

\* claimRewards as it would be without the settlement: only what was
\* materialized before is paid.
ClaimRewards_unsettled(c, t, user, lpToken) ==
  OkValue([c EXCEPT !.userStakes[<<user, lpToken>>].pendingRewards = 0],
          Position(c, user, lpToken).pendingRewards)

ClaimRewards(c, t, user, lpToken) ==
  OkValue([Settle(c, t, user, lpToken) EXCEPT
             !.userStakes[<<user, lpToken>>].pendingRewards = 0],
          pendingRewards(c, t, user, lpToken))

\* --------------------------------------------------------- ContractProvider

parseEther(amount) == amount * WeiPerEther

\* A write of the provider ends as the transaction does: tx.wait() throws when
\* the transaction reverted, and nothing is sent while the handle is null.
Guarded(r) ==
  IF contract = NULL THEN Fail("Contract not initialized", chain) ELSE r

\* The state after a call that ended as r.
Commit(r) ==
  /\ chain' = r.chain
  /\ UNCHANGED <<provider, mempool, admin, modal, now, view>>

initContract(hasProvider, hasSigner, throws) ==
  /\ IF ~hasProvider \/ ~hasSigner
     THEN /\ isLoading' = FALSE
          /\ UNCHANGED <<contract, error>>
     ELSE IF throws
     THEN /\ error' = "Failed to initialize contract"
          /\ isLoading' = FALSE
          /\ UNCHANGED contract
     ELSE /\ contract' = "connected"
          /\ error' = NULL
          /\ isLoading' = FALSE
  /\ UNCHANGED <<chain, now, mempool, admin, modal, view>>

\* stake as it would be with the rejection swallowed: the caller sees success.
stake_swallows(who, lpToken, amount) ==
  IF contract = NULL THEN Ok(chain)
  ELSE Ok(Stake(chain, now, who, lpToken, parseEther(amount)).chain)

\* stake as it would be with the amount sent as typed, without parseEther.
stake_unscaled(who, lpToken, amount) ==
  Guarded(Stake(chain, now, who, lpToken, amount))

stake(who, lpToken, amount) ==
  Guarded(Stake(chain, now, who, lpToken, parseEther(amount)))

\* unstake as it would be with the amount sent as typed, without parseEther.
unstake_unscaled(who, lpToken, amount) ==
  Guarded(Unstake(chain, now, who, lpToken, amount))

unstake(who, lpToken, amount) ==
  Guarded(Unstake(chain, now, who, lpToken, parseEther(amount)))

\* claimRewards as it would be with the pending amount read and no
\* transaction sent.
claimRewards_readsOnly(who, lpToken) ==
  Guarded(OkValue(chain, pendingRewards(chain, now, who, lpToken)))

claimRewards(who, lpToken) == Guarded(ClaimRewards(chain, now, who, lpToken))

proposeSetDailyRewardRate(who, newRate) ==
  Guarded(propose(chain, [NoPayload EXCEPT !.actionType = "SetDailyRewardRate",
                                           !.newRate = parseEther(newRate)], who))

proposeUpdatePairWeights(who, lpTokens, weights) ==
  Guarded(propose(chain, [NoPayload EXCEPT
                            !.actionType = "UpdatePairWeights",
                            !.lpTokens = lpTokens,
                            !.weights = [i \in 1..Len(weights) |->
                                           parseEther(weights[i])]], who))

proposeAddPair(who, lpToken, weight) ==
  Guarded(propose(chain, [NoPayload EXCEPT !.actionType = "AddPair",
                                           !.pairToAdd = lpToken,
                                           !.weightToAdd = parseEther(weight)], who))

\* approveAction as it would be without `await tx.wait()`: it resolves before
\* the revert is known.
approveAction_noWait(who, actionId) ==
  IF contract = NULL THEN Fail("Contract not initialized", chain)
  ELSE Ok(approve(chain, actionId, who).chain)

\* approveAction as it would be with the row index sent for the action id.
approveAction_offByOne(who, actionId) == Guarded(approve(chain, actionId - 1, who))

\* approveAction as it would be if it went on to execute the action it approved.
approveAction_thenExecute(who, actionId) ==
  LET r == approve(chain, actionId, who)
      e == execute(r.chain, actionId)
  IN  Guarded(IF r.res = "ok" /\ e.res = "ok" THEN e ELSE r)

approveAction(who, actionId) == Guarded(approve(chain, actionId, who))

\* executeAction as it would be with contract.approveAction called in its body.
executeAction_callsApprove(actionId) == Guarded(approve(chain, actionId, "A"))

\* executeAction as it would be without `await tx.wait()`.
executeAction_noWait(actionId) ==
  IF contract = NULL THEN Fail("Contract not initialized", chain)
  ELSE Ok(execute(chain, actionId).chain)

\* executeAction as it would be if actions had to run in id order: the lowest
\* unexecuted action is executed in place of the one asked for.
executeAction_lowestFirst(actionId) ==
  LET waiting == {i \in DOMAIN chain.actions : ~chain.actions[i].executed}
      lowest  == IF waiting = {} THEN actionId
                 ELSE CHOOSE i \in waiting : \A k \in waiting : i <= k
  IN  Guarded(execute(chain, lowest))

executeAction(actionId) == Guarded(execute(chain, actionId))

getUserStakeInfo(userAddress, lpToken) ==
  Guarded(OkValue(chain, Position(chain, userAddress, lpToken)))

getDailyRewardRate == Guarded(OkValue(chain, chain.dailyRewardRate))

\* getTotalWeight as it would be with contract.dailyRewardRate() read instead.
getTotalWeight_readsRate == Guarded(OkValue(chain, chain.dailyRewardRate))

getTotalWeight == Guarded(OkValue(chain, chain.totalWeight))

\* contract.pairs(lpToken): the pool's weight and flag, zero for a token that
\* is no pool.
getPairInfo(lpToken) ==
  Guarded(OkValue(chain,
     IF lpToken \in DOMAIN chain.pairs
     THEN [weight |-> chain.pairs[lpToken].weight,
           isActive |-> chain.pairs[lpToken].isActive]
     ELSE [weight |-> 0, isActive |-> FALSE]))

getPairs == Guarded(OkValue(chain, chain.pairs))

\* The reward token's address, fixed at deployment.
RewardToken == "R"

getRewardToken == Guarded(OkValue(chain, RewardToken))

getSigners == Guarded(OkValue(chain, chain.signers))

\* getActionCounter as it would be without its test of the handle.
getActionCounter_unguarded == OkValue(chain, chain.actionCounter)

getActionCounter == Guarded(OkValue(chain, chain.actionCounter))

\* ----------------------------------------------------------- MultiSignPanel

\* useState<bigint>() before the first load: undefined.
Undefined == -1

InitPanel ==
  [proposals |-> <<>>, actionCounter |-> Undefined,
   requiredApprovals |-> Undefined, isLoading |-> FALSE]

Idle == [pc |-> "idle", counter |-> 0, approvals |-> 0, tmpProposals |-> <<>>]

NoHandler ==
  [pc |-> "idle", op |-> NULL, who |-> NULL, id |-> 0,
   updatedProposal |-> NewAction(0, NoPayload)]

\* No transaction is out.
NoBatch == [submitted |-> {}, mined |-> {}]

\* The end of loadContractData's try block and its finally.
LoadFinish(l) ==
  /\ panel' = [proposals |-> l.tmpProposals, actionCounter |-> l.counter,
               requiredApprovals |-> l.approvals, isLoading |-> FALSE]
  /\ load' = Idle

\* loadContractData up to its first await; one call is in flight at a time.
loadContractData ==
  /\ load.pc = "idle"
  /\ IF contract = NULL
     THEN UNCHANGED <<panel, load>>
     ELSE /\ panel' = [panel EXCEPT !.isLoading = TRUE]
          /\ load' = [Idle EXCEPT !.pc = "actionCounter"]
  /\ UNCHANGED <<provider, mempool, admin, modal, chain, now, handler>>

LoadCounter ==
  /\ load.pc = "actionCounter"
  /\ load' = [load EXCEPT !.counter = chain.actionCounter,
                          !.pc = "REQUIRED_APPROVALS"]
  /\ UNCHANGED <<provider, mempool, admin, modal, chain, now, panel, handler>>

LoadApprovals ==
  /\ load.pc = "REQUIRED_APPROVALS"
  /\ LET l == [load EXCEPT !.approvals = chain.requiredApprovals, !.pc = "actions"]
     IN  IF 1 <= l.counter
         THEN load' = l /\ UNCHANGED panel
         ELSE LoadFinish(l)
  /\ UNCHANGED <<provider, mempool, admin, modal, chain, now, handler>>

\* The loop as it would be with `i < counter` for its test: the last action is
\* never read.
LoadAction_skipsLast ==
  /\ load.pc = "actions"
  /\ LET i == Len(load.tmpProposals) + 1
         l == [load EXCEPT !.tmpProposals = Append(@, chain.actions[i])]
     IN  IF i + 1 < l.counter
         THEN load' = l /\ UNCHANGED panel
         ELSE LoadFinish(l)
  /\ UNCHANGED <<provider, mempool, admin, modal, chain, now, handler>>

\* One turn of the loop: actions(i) is read and pushed; after the last turn
\* the state is set.
LoadAction ==
  /\ load.pc = "actions"
  /\ LET i == Len(load.tmpProposals) + 1
         l == [load EXCEPT !.tmpProposals = Append(@, chain.actions[i])]
     IN  IF i + 1 <= l.counter
         THEN load' = l /\ UNCHANGED panel
         ELSE LoadFinish(l)
  /\ UNCHANGED <<provider, mempool, admin, modal, chain, now, handler>>

\* A read rejects: the catch logs, the finally clears isLoading.
LoadCatch ==
  /\ load.pc # "idle"
  /\ panel' = [panel EXCEPT !.isLoading = FALSE]
  /\ load' = Idle
  /\ UNCHANGED <<provider, mempool, admin, modal, chain, now, handler>>

\* bigint truthiness: undefined and 0n are falsy.
Truthy(n) == n # Undefined /\ n # 0

canExecute(proposal) ==
  /\ ~proposal.executed
  /\ Truthy(panel.requiredApprovals)
  /\ Truthy(proposal.approvals)
  /\ proposal.approvals >= panel.requiredApprovals

\* The rows the table shows, each with its Approve button.
ApproveShown(actionId) ==
  /\ ~panel.isLoading
  /\ actionId \in 1..Len(panel.proposals)
  /\ ~panel.proposals[actionId].executed

ExecuteEnabled(actionId) ==
  /\ ApproveShown(actionId)
  /\ canExecute(panel.proposals[actionId])

\* A click on a row's button: the handler is entered and its transaction is
\* sent; one handler runs at a time.
HandlerClick(op, who, actionId) ==
  /\ handler.pc = "idle"
  /\ handler' = [NoHandler EXCEPT !.pc = "tx", !.op = op, !.who = who,
                                  !.id = actionId]
  /\ UNCHANGED <<provider, mempool, admin, modal, chain, now, panel, load>>

\* The handler's `await approveAction(id)` or `await executeAction(id)`
\* settles: on success the refresh follows, on failure the catch notifies.
HandlerTx ==
  /\ handler.pc = "tx"
  /\ LET r == IF handler.op = "approveAction"
              THEN approveAction(handler.who, handler.id)
              ELSE executeAction(handler.id)
     IN  /\ chain' = r.chain
         /\ handler' = IF r.res = "ok"
                       THEN [handler EXCEPT !.pc = "actions"]
                       ELSE NoHandler
  /\ UNCHANGED <<provider, mempool, admin, modal, now, panel, load>>

\* await contract.actions(BigInt(id))
HandlerRead ==
  /\ handler.pc = "actions"
  /\ handler' = [handler EXCEPT !.updatedProposal = chain.actions[handler.id],
                                !.pc = "setProposals"]
  /\ UNCHANGED <<provider, mempool, admin, modal, chain, now, panel, load>>

\* setProposals((prev) => prev.map((p, idx) => (idx + 1 === id ? updatedProposal : p)))
HandlerSet ==
  /\ handler.pc = "setProposals"
  /\ panel' = [panel EXCEPT !.proposals =
                  [idx \in 1..Len(@) |->
                     IF idx = handler.id THEN handler.updatedProposal ELSE @[idx]]]
  /\ handler' = NoHandler
  /\ UNCHANGED <<provider, mempool, admin, modal, chain, now, load>>

handleApproveAction(who, actionId) ==
  /\ ApproveShown(actionId)
  /\ HandlerClick("approveAction", who, actionId)

handleExecuteAction(actionId) ==
  /\ ExecuteEnabled(actionId)
  /\ HandlerClick("executeAction", NULL, actionId)

\* ------------------------------------------------------------- StakingModal

\* An amount field the user left empty.
Blank == -1

\* A handler that returned before it called the contract.
Skipped == [res |-> "skipped", chain |-> chain, value |-> 0]

\* `stakeAmount || ((stakePercent * balance) / 100).toString()`
handleStake(who, lpToken, stakeAmount, stakePercent, balance) ==
  LET amount == IF stakeAmount # Blank THEN stakeAmount
                ELSE (stakePercent * balance) \div 100
  IN  IF amount = 0 THEN Skipped ELSE stake(who, lpToken, amount)

\* The fallback takes stakedAmount.amount as it is stored, in wei, and hands it
\* to unstake, which scales it by parseEther again.
handleUnstake(who, lpToken, unstakeAmount, unstakePercent) ==
  LET stakedAmount == getUserStakeInfo(who, lpToken)
      amount == IF unstakeAmount # Blank THEN unstakeAmount
                ELSE (unstakePercent * stakedAmount.value.amount) \div 100
  IN  IF stakedAmount.res # "ok" THEN stakedAmount
      ELSE IF amount = 0 THEN Skipped
      ELSE unstake(who, lpToken, amount)

\* handleWithdraw as it would be wired to unstake one ether.
handleWithdraw_unstakes(who, lpToken) == unstake(who, lpToken, 1)

handleWithdraw(who, lpToken) == claimRewards(who, lpToken)

\* --------------------------------------------------------------- admin page

\* The admin page holds a contract handle of its own, stakingContract, and
\* its write functions return without a call while it is null.
adminProposeSetDailyRewardRate(stakingContract, who, rate) ==
  IF stakingContract = NULL THEN Skipped
  ELSE propose(chain, [NoPayload EXCEPT !.actionType = "SetDailyRewardRate",
                                        !.newRate = rate], who)

adminProposeAddPair(stakingContract, who, lpToken, weight) ==
  IF stakingContract = NULL THEN Skipped
  ELSE propose(chain, [NoPayload EXCEPT !.actionType = "AddPair",
                                        !.pairToAdd = lpToken,
                                        !.weightToAdd = weight], who)

\* The page's approveAction as it would be if it went on to execute the
\* action it approved.
adminApproveAction_thenExecute(stakingContract, who, actionId) ==
  LET r == approve(chain, actionId, who)
      e == execute(r.chain, actionId)
  IN  IF stakingContract = NULL THEN Skipped
      ELSE IF r.res = "ok" /\ e.res = "ok" THEN e ELSE r

adminApproveAction(stakingContract, who, actionId) ==
  IF stakingContract = NULL THEN Skipped ELSE approve(chain, actionId, who)

adminExecuteAction(stakingContract, actionId) ==
  IF stakingContract = NULL THEN Skipped ELSE execute(chain, actionId)

\* The page's buttons; a field left at '0' or empty sends nothing.
handleProposeDailyRate(stakingContract, who, newDailyRate) ==
  IF newDailyRate = 0 THEN Skipped
  ELSE adminProposeSetDailyRewardRate(stakingContract, who, parseEther(newDailyRate))

handleProposeAddPair(stakingContract, who, newPairAddress, newPairWeight) ==
  IF newPairAddress = NULL \/ newPairWeight = 0 THEN Skipped
  ELSE adminProposeAddPair(stakingContract, who, newPairAddress,
                           parseEther(newPairWeight))

adminHandleApproveAction(stakingContract, who, actionId) ==
  IF actionId = Blank THEN Skipped
  ELSE adminApproveAction(stakingContract, who, actionId)

adminHandleExecuteAction(stakingContract, actionId) ==
  IF actionId = Blank THEN Skipped
  ELSE adminExecuteAction(stakingContract, actionId)

\* useState<any>() before the first loadActionDetails: no snapshot.  `id` is
\* the action a snapshot was read for.
NoDetails == [loaded |-> FALSE, id |-> 0, approvals |-> 0, executed |-> FALSE]

\* The page after its first render.  `load` is loadContractData's position
\* and `fetching` holds the ids loadActionDetails is still waiting for.
InitAdmin ==
  [stakingContract |-> NULL, actionId |-> Blank, actionCounter |-> Undefined,
   requiredApprovals |-> Undefined, actionDetails |-> NoDetails,
   load |-> [pc |-> "idle", counter |-> 0], fetching |-> {}]

\* What stakingContract.actions(id) resolves to: the stored action, or the
\* zero record of a public mapping for an id that was never proposed.
ActionRecord(c, id) ==
  IF id \in DOMAIN c.actions
  THEN [loaded |-> TRUE, id |-> id, approvals |-> c.actions[id].approvals,
        executed |-> c.actions[id].executed]
  ELSE [NoDetails EXCEPT !.loaded = TRUE, !.id = id]

\* init(): with a wallet in the window the page connects its own handle;
\* the two effects that depend on stakingContract then run again.
adminInit(hasEthereum) ==
  /\ admin.stakingContract = NULL
  /\ admin' = IF hasEthereum
              THEN [admin EXCEPT
                      !.stakingContract = "connected",
                      !.load = [pc |-> "actionCounter", counter |-> 0],
                      !.fetching = IF admin.actionId # Blank
                                   THEN @ \cup {admin.actionId} ELSE @]
              ELSE admin
  /\ UNCHANGED <<provider, mempool, modal, chain, now, view>>

\* loadContractData of the page: two reads, then both setters.
adminLoadCounter ==
  /\ admin.load.pc = "actionCounter"
  /\ admin' = [admin EXCEPT !.load = [pc |-> "REQUIRED_APPROVALS",
                                      counter |-> chain.actionCounter]]
  /\ UNCHANGED <<provider, mempool, modal, chain, now, view>>

adminLoadApprovals ==
  /\ admin.load.pc = "REQUIRED_APPROVALS"
  /\ admin' = [admin EXCEPT !.actionCounter = admin.load.counter,
                            !.requiredApprovals = chain.requiredApprovals,
                            !.load = [pc |-> "idle", counter |-> 0]]
  /\ UNCHANGED <<provider, mempool, modal, chain, now, view>>

\* A read that rejects ends loadContractData before its setters; nothing
\* catches it.
adminLoadRejects ==
  /\ admin.load.pc # "idle"
  /\ admin' = [admin EXCEPT !.load = [pc |-> "idle", counter |-> 0]]
  /\ UNCHANGED <<provider, mempool, modal, chain, now, view>>

\* The Action ID field; the loadActionDetails effect runs on each change
\* and reads only with a handle and a non-empty id.
setActionId(value) ==
  /\ value # admin.actionId
  /\ admin' = [admin EXCEPT
                 !.actionId = value,
                 !.fetching = IF admin.stakingContract # NULL /\ value # Blank
                              THEN @ \cup {value} ELSE @]
  /\ UNCHANGED <<provider, mempool, modal, chain, now, view>>

\* The end of one loadActionDetails call: its read resolves and is shown,
\* whichever id the field holds by then.
loadActionDetails(id) ==
  /\ id \in admin.fetching
  /\ admin' = [admin EXCEPT !.actionDetails = ActionRecord(chain, id),
                            !.fetching = @ \ {id}]
  /\ UNCHANGED <<provider, mempool, modal, chain, now, view>>

\* The page's Execute button: `disabled={!actionDetails ||
\* actionDetails.executed || actionDetails.approvals < (requiredApprovals || 0)}`
adminExecuteEnabled ==
  /\ admin.actionDetails.loaded
  /\ ~admin.actionDetails.executed
  /\ ~(admin.actionDetails.approvals <
         (IF Truthy(admin.requiredApprovals) THEN admin.requiredApprovals ELSE 0))

\* ---------------------------------------------------- UpdatePairWeightModal

\* The address a row holds before a pool is selected.
NoAddress == ""

\* ethers.isAddress: the empty selection is not an address; the pools'
\* token addresses are.
isAddress(addr) == addr # NoAddress /\ addr \in LpToken

\* The modal after its first render, opened by its parent: one empty row,
\* no maxWeight, no error, no pools to select.  `load` is
\* loadContractData's position.
InitModal ==
  [updatePairAddresses |-> <<NoAddress>>, updatePairWeights |-> <<Blank>>,
   maxWeight |-> Undefined, error |-> "",
   availablePairs |-> [pair \in {} |-> 0], load |-> "idle", open |-> TRUE]

\* The read behind the modal's getMaxWeight(), which resolves to the
\* contract's maximum weight.
getMaxWeight(max) == Guarded(OkValue(chain, max))

\* ethers.formatUnits(pair.weight, 18)
formatUnits(weight) == weight \div WeiPerEther

\* The refetch effect calls loadContractData.
modalLoadContractData ==
  /\ modal.load = "idle"
  /\ modal' = [modal EXCEPT !.load = "getMaxWeight"]
  /\ UNCHANGED <<provider, mempool, admin, chain, now, view>>

\* `const maxWeight = await getMaxWeight(); setMaxWeight(Number(maxWeight))`;
\* a read that rejects ends the load.
modalLoadMaxWeight(max) ==
  /\ modal.load = "getMaxWeight"
  /\ LET r == getMaxWeight(max)
     IN  modal' = IF r.res = "ok"
                  THEN [modal EXCEPT !.maxWeight = r.value, !.load = "getPairs"]
                  ELSE [modal EXCEPT !.load = "idle"]
  /\ UNCHANGED <<provider, mempool, admin, chain, now, view>>

\* `const pairs = await getPairs(); setAvailablePairs(pairsWithWeights)`
modalLoadPairs ==
  /\ modal.load = "getPairs"
  /\ LET r == getPairs
     IN  modal' = IF r.res = "ok"
                  THEN [modal EXCEPT
                          !.availablePairs =
                             [pair \in DOMAIN r.value |->
                                formatUnits(r.value[pair].weight)],
                          !.load = "idle"]
                  ELSE [modal EXCEPT !.load = "idle"]
  /\ UNCHANGED <<provider, mempool, admin, chain, now, view>>

\* filter((_, i) => i !== index)
RemoveAt(list, index) ==
  [i \in 1..(Len(list) - 1) |-> IF i < index THEN list[i] ELSE list[i + 1]]

handleAddPairWeight ==
  /\ modal.open
  /\ modal' = [modal EXCEPT !.updatePairAddresses = Append(@, NoAddress),
                            !.updatePairWeights = Append(@, Blank)]
  /\ UNCHANGED <<provider, mempool, admin, chain, now, view>>

\* The Remove button is disabled while one row is left.
handleRemovePairWeight(index) ==
  /\ modal.open
  /\ Len(modal.updatePairAddresses) # 1
  /\ index \in 1..Len(modal.updatePairAddresses)
  /\ modal' = [modal EXCEPT !.updatePairAddresses = RemoveAt(@, index),
                            !.updatePairWeights = RemoveAt(@, index)]
  /\ UNCHANGED <<provider, mempool, admin, chain, now, view>>

\* What a row's address menu offers: no address, or a pool that no other row
\* holds.
AddressMenu(index) ==
  {NoAddress} \cup
  { pair \in DOMAIN modal.availablePairs :
      \/ \A i \in 1..Len(modal.updatePairAddresses) :
            modal.updatePairAddresses[i] # pair
      \/ pair = modal.updatePairAddresses[index] }

\* onChange of a row's address: the row's weight becomes the selected
\* pool's, or empty.
selectAddress(index, value) ==
  /\ modal.open
  /\ index \in 1..Len(modal.updatePairAddresses)
  /\ value \in AddressMenu(index)
  /\ modal' = [modal EXCEPT
                 !.updatePairAddresses[index] = value,
                 !.updatePairWeights[index] =
                    IF value \in DOMAIN modal.availablePairs
                    THEN modal.availablePairs[value] ELSE Blank]
  /\ UNCHANGED <<provider, mempool, admin, chain, now, view>>

\* onChange of a row's weight field.
editWeight(index, value) ==
  /\ modal.open
  /\ index \in 1..Len(modal.updatePairWeights)
  /\ modal' = [modal EXCEPT !.updatePairWeights[index] = value]
  /\ UNCHANGED <<provider, mempool, admin, chain, now, view>>

\* The Propose Weight Updates button is disabled while a row lacks its
\* address or its weight.
ProposeEnabled ==
  /\ modal.open
  /\ \A i \in 1..Len(modal.updatePairAddresses) :
        modal.updatePairAddresses[i] # NoAddress
  /\ \A i \in 1..Len(modal.updatePairWeights) :
        modal.updatePairWeights[i] # Blank

Range(list) == { list[i] : i \in 1..Len(list) }

validWeights(m) ==
  \A i \in 1..Len(m.updatePairWeights) :
     LET weight == m.updatePairWeights[i]
     IN  weight # Blank /\ weight <= m.maxWeight /\ weight >= 0

\* The handler's outcome on modal state m: the state it leaves and the call
\* it made, Skipped when it returned before the call.
handleProposeUpdateWeights(m, who) ==
  LET r == proposeUpdatePairWeights(who, m.updatePairAddresses, m.updatePairWeights)
  IN  IF \E i \in 1..Len(m.updatePairAddresses) : ~isAddress(m.updatePairAddresses[i])
      THEN [modal |-> [m EXCEPT !.error = "Invalid LP token address format"],
            call |-> Skipped]
      ELSE IF Cardinality(Range(m.updatePairAddresses)) # Len(m.updatePairAddresses)
      THEN [modal |-> [m EXCEPT !.error = "Duplicate LP token addresses are not allowed"],
            call |-> Skipped]
      ELSE IF Truthy(m.maxWeight) /\ ~validWeights(m)
      THEN [modal |-> [m EXCEPT !.error = "Weights must be between 0 and maxWeight"],
            call |-> Skipped]
      ELSE IF r.res = "ok"
      THEN [modal |-> [m EXCEPT !.open = FALSE], call |-> r]
      ELSE [modal |-> [m EXCEPT !.error = "Failed to propose weight updates. Please try again."],
            call |-> r]

\* ------------------------------------------------------------ other clients

\* The provider has no wrapper for these two kinds; another client of the
\* contract proposes them.
proposeRemovePair(who, lpToken) ==
  propose(chain, [NoPayload EXCEPT !.actionType = "RemovePair",
                                   !.pairToRemove = lpToken], who)

proposeChangeSigner(who, signerOp, signerArg) ==
  propose(chain, [NoPayload EXCEPT !.actionType = "ChangeSigner",
                                   !.signerOp = signerOp,
                                   !.signerArg = signerArg], who)

\* ------------------------------------------------------------ specification

InitChain ==
  [pairs |-> [p \in {"X"} |->
                [weight |-> parseEther(1), isActive |-> TRUE, totalStaked |-> 0]],
   totalWeight |-> parseEther(1),
   dailyRewardRate |-> parseEther(1),
   signers |-> InitialSigners,
   requiredApprovals |-> 2,
   actions |-> [i \in {} |-> NewAction(i, NoPayload)],
   actionCounter |-> 0,
   applied |-> [i \in {} |-> 0],
   userStakes |-> [k \in Stakers \X LpToken |->
                     [amount |-> 0, pendingRewards |-> 0, lastRewardTime |-> 0]]]

Init ==
  /\ contract = NULL
  /\ isLoading = TRUE
  /\ error = NULL
  /\ chain = InitChain
  /\ now = 0
  /\ panel = InitPanel
  /\ load = Idle
  /\ handler = NoHandler
  /\ mempool = NoBatch
  /\ admin = InitAdmin
  /\ modal = InitModal

\* What the model proposes, and who calls.
Rates == {2}

LedgerRates == {0, 4}

WeightLists == { <<<<"X">>, <<2>>>>, <<<<"X", "Z">>, <<2, 1>>>> }

Callers == {"A", "B", "D"}

Propose ==
  /\ chain.actionCounter < MaxActions
  /\ \E who \in {"A", "D"} :
       \/ \E r \in Rates : Commit(proposeSetDailyRewardRate(who, r))
       \/ \E l \in WeightLists : Commit(proposeUpdatePairWeights(who, l[1], l[2]))
       \/ Commit(proposeAddPair(who, "Y", 3))
       \/ Commit(proposeRemovePair(who, "X"))
       \/ Commit(proposeChangeSigner(who, "add", "D"))

Approve ==
  \E who \in Callers, id \in 1..(chain.actionCounter + 1) :
     Commit(approveAction(who, id))

Execute ==
  \E id \in 1..(chain.actionCounter + 1) : Commit(executeAction(id))

\* The wallet and the pool that stake under Spec, one ether at a time.
StakeTx ==
  /\ Position(chain, "A", "X").amount < parseEther(MaxStake)
  /\ Commit(stake("A", "X", 1))

UnstakeTx == Commit(unstake("A", "X", 1))

ClaimTx == Commit(claimRewards("A", "X"))

Tick ==
  /\ now < MaxTime
  /\ now' = now + 1
  /\ UNCHANGED <<provider, mempool, admin, modal, chain, view>>

InitContract ==
  \E hasProvider, hasSigner, throws \in BOOLEAN :
     initContract(hasProvider, hasSigner, throws)

\* What signers A and B do on the admin page, before and after its handle is
\* set.
AdminPage ==
  \E stakingContract \in {NULL, "connected"}, who \in {"A", "B"} :
     \/ /\ chain.actionCounter < MaxActions
        /\ \/ \E newDailyRate \in {0, 2} :
                Commit(handleProposeDailyRate(stakingContract, who, newDailyRate))
           \/ Commit(handleProposeAddPair(stakingContract, who, "Y", 3))
     \/ \E actionId \in {Blank} \cup 1..chain.actionCounter :
           \/ Commit(adminHandleApproveAction(stakingContract, who, actionId))
           \/ Commit(adminHandleExecuteAction(stakingContract, actionId))

Next ==
  \/ InitContract
  \/ AdminPage
  \/ Propose
  \/ Approve
  \/ Execute
  \/ StakeTx
  \/ UnstakeTx
  \/ ClaimTx

Spec == Init /\ [][Next]_vars

\* The ledger under a clock: two wallets stake in pool X beside a second pool
\* Y that an earlier AddPair brought in, and the queue is shorter.
InitLedger ==
  /\ contract = NULL
  /\ isLoading = TRUE
  /\ error = NULL
  /\ chain = addPool(InitChain, "Y", parseEther(3)).chain
  /\ now = 0
  /\ panel = InitPanel
  /\ load = Idle
  /\ handler = NoHandler
  /\ mempool = NoBatch
  /\ admin = InitAdmin
  /\ modal = InitModal

LedgerWeightLists == { <<<<"X", "Y">>, <<0, 0>>>>, <<<<"X", "Z">>, <<2, 1>>>> }

LedgerPropose ==
  /\ chain.actionCounter < LedgerMaxActions
  /\ \/ \E r \in LedgerRates : Commit(proposeSetDailyRewardRate("A", r))
     \/ \E l \in LedgerWeightLists : Commit(proposeUpdatePairWeights("A", l[1], l[2]))
     \/ Commit(proposeRemovePair("A", "X"))

LedgerApprove ==
  \E who \in {"A", "B"}, id \in 1..chain.actionCounter :
     Commit(approveAction(who, id))

LedgerStake ==
  \E who \in Stakers :
     /\ Position(chain, who, "X").amount < parseEther(MaxStake)
     /\ Commit(handleStake(who, "X", 1, 100, 1))

LedgerUnstake ==
  \E who \in Stakers, unstakeAmount \in {Blank, 1} :
     Commit(handleUnstake(who, "X", unstakeAmount, 100))

LedgerClaim == \E who \in Stakers : Commit(handleWithdraw(who, "X"))

NextLedger ==
  \/ InitContract
  \/ LedgerPropose
  \/ LedgerApprove
  \/ Execute
  \/ LedgerStake
  \/ LedgerUnstake
  \/ LedgerClaim
  \/ Tick

SpecLedger == InitLedger /\ [][NextLedger]_vars

\* The proposals panel beside a queue that other clients use too.
PanelPropose ==
  /\ chain.actionCounter < PanelMaxActions
  /\ Commit(proposeSetDailyRewardRate("A", 2))

PanelOthers ==
  \E id \in 1..chain.actionCounter :
     \/ Commit(approveAction("B", id))
     \/ Commit(executeAction(id))

PanelApprove ==
  \E who \in {"A", "B"}, id \in 1..PanelMaxActions : handleApproveAction(who, id)

PanelExecute ==
  \E id \in 1..PanelMaxActions : handleExecuteAction(id)

NextPanel ==
  \/ InitContract
  \/ PanelPropose
  \/ PanelOthers
  \/ loadContractData
  \/ LoadCounter
  \/ LoadApprovals
  \/ LoadAction
  \/ LoadCatch
  \/ PanelApprove
  \/ PanelExecute
  \/ HandlerTx
  \/ HandlerRead
  \/ HandlerSet

SpecPanel == Init /\ [][NextPanel]_vars

\* Transactions sent together.  A wallet's call is submitted by
\* `await contract.stake(...)` and takes effect when it is mined, which
\* `await tx.wait()` waits for; the calls of a batch are all submitted before
\* the first of them is mined, and they are mined one at a time in any order.
Call(op, who, actionId, lpToken, amount) ==
  [op |-> op, who |-> who, actionId |-> actionId, lpToken |-> lpToken,
   amount |-> amount]

BatchCalls ==
  { Call("approveAction", "A", 1, NULL, 0),
    Call("approveAction", "B", 1, NULL, 0),
    Call("executeAction", "C", 1, NULL, 0),
    Call("stake", "A", 0, "X", 1),
    Call("stake", "A", 0, "X", 2),
    Call("unstake", "A", 0, "X", 2) }

\* The contract's run of one mined transaction on storage c.
ApplyCall(c, call) ==
  CASE call.op = "approveAction" -> approve(c, call.actionId, call.who)
    [] call.op = "executeAction" -> execute(c, call.actionId)
    [] call.op = "stake"   -> Stake(c, now, call.who, call.lpToken, parseEther(call.amount))
    [] call.op = "unstake" -> Unstake(c, now, call.who, call.lpToken, parseEther(call.amount))

\* The storage the batch is sent on: action 1 is proposed and wallet A holds
\* one ether in X.
BatchBase ==
  Stake(propose(InitChain, [NoPayload EXCEPT !.actionType = "SetDailyRewardRate",
                                             !.newRate = parseEther(2)], "A").chain,
        0, "A", "X", parseEther(1)).chain

InitBatch ==
  /\ contract = "connected"
  /\ isLoading = FALSE
  /\ error = NULL
  /\ chain = BatchBase
  /\ now = 0
  /\ panel = InitPanel
  /\ load = Idle
  /\ handler = NoHandler
  /\ mempool = NoBatch
  /\ admin = InitAdmin
  /\ modal = InitModal

SubmitCall ==
  \E call \in BatchCalls \ mempool.submitted :
     /\ contract # NULL
     /\ mempool.mined = {}
     /\ mempool' = [mempool EXCEPT !.submitted = @ \cup {call}]
     /\ UNCHANGED <<provider, chain, now, admin, modal, view>>

\* Mining as it would be without mutual exclusion: each transaction runs on
\* the storage it was submitted on and its result is written back whole.
MineCall_stale ==
  \E call \in mempool.submitted \ mempool.mined :
     /\ chain' = ApplyCall(BatchBase, call).chain
     /\ mempool' = [mempool EXCEPT !.mined = @ \cup {call}]
     /\ UNCHANGED <<provider, now, admin, modal, view>>

MineCall ==
  \E call \in mempool.submitted \ mempool.mined :
     /\ chain' = ApplyCall(chain, call).chain
     /\ mempool' = [mempool EXCEPT !.mined = @ \cup {call}]
     /\ UNCHANGED <<provider, now, admin, modal, view>>

NextBatch ==
  \/ SubmitCall
  \/ MineCall

SpecBatch == InitBatch /\ [][NextBatch]_vars


\* The admin page on its own: it connects, loads, and its buttons send
\* transactions from wallet A or B; the page reloads nothing after a
\* transaction.
AdminIds == {Blank} \cup (1..AdminMaxActions)

AdminInit == \E hasEthereum \in BOOLEAN : adminInit(hasEthereum)

AdminSetActionId == \E value \in AdminIds : setActionId(value)

AdminLoadActionDetails == \E id \in 1..AdminMaxActions : loadActionDetails(id)

AdminPropose ==
  /\ chain.actionCounter < AdminMaxActions
  /\ Commit(handleProposeDailyRate(admin.stakingContract, "A", 2))

AdminApprove ==
  \E who \in {"A", "B"} :
     Commit(adminHandleApproveAction(admin.stakingContract, who, admin.actionId))

AdminExecute ==
  /\ adminExecuteEnabled
  /\ Commit(adminHandleExecuteAction(admin.stakingContract, admin.actionId))

NextAdmin ==
  \/ AdminInit
  \/ adminLoadCounter
  \/ adminLoadApprovals
  \/ adminLoadRejects
  \/ AdminSetActionId
  \/ AdminLoadActionDetails
  \/ AdminPropose
  \/ AdminApprove
  \/ AdminExecute

SpecAdmin == Init /\ [][NextAdmin]_vars


\* The weight modal beside the provider: the provider connects, the modal
\* loads, signer A or wallet D edits rows and presses the button; two pools
\* exist.
InitModalPage ==
  /\ contract = NULL
  /\ isLoading = TRUE
  /\ error = NULL
  /\ chain = addPool(InitChain, "Y", parseEther(1)).chain
  /\ now = 0
  /\ panel = InitPanel
  /\ load = Idle
  /\ handler = NoHandler
  /\ mempool = NoBatch
  /\ admin = InitAdmin
  /\ modal = InitModal

ModalLoadMaxWeight == \E max \in 0..ModalMaxWeight : modalLoadMaxWeight(max)

ModalAddRow ==
  /\ Len(modal.updatePairAddresses) < MaxRows
  /\ handleAddPairWeight

ModalRemoveRow == \E index \in 1..MaxRows : handleRemovePairWeight(index)

ModalSelectAddress ==
  \E index \in 1..MaxRows, value \in {NoAddress} \cup LpToken :
     selectAddress(index, value)

ModalEditWeight ==
  \E index \in 1..MaxRows, value \in {Blank} \cup (0..(ModalMaxWeight + 1)) :
     editWeight(index, value)

ModalPropose ==
  /\ ProposeEnabled
  /\ chain.actionCounter < ModalMaxActions
  /\ \E who \in {"A", "D"} :
       LET h == handleProposeUpdateWeights(modal, who)
       IN  /\ modal' = h.modal
           /\ chain' = h.call.chain
  /\ UNCHANGED <<provider, mempool, admin, now, view>>

NextModal ==
  \/ InitContract
  \/ modalLoadContractData
  \/ ModalLoadMaxWeight
  \/ modalLoadPairs
  \/ ModalAddRow
  \/ ModalRemoveRow
  \/ ModalSelectAddress
  \/ ModalEditWeight
  \/ ModalPropose

SpecModal == InitModalPage /\ [][NextModal]_vars


\* ------------------------------------------------------------------ claims

Connected == contract # NULL

Action(id) == chain.actions[id]

EnoughApprovals(id) == Action(id).approvals >= chain.requiredApprovals

\* The payload of action a cannot be applied to storage c: what spec.md
\* sections 4.1 and 4.2 require of each kind does not hold.
PayloadFails(c, a) ==
  \/ a.actionType = "SetDailyRewardRate" /\ a.newRate < 0
  \/ a.actionType = "UpdatePairWeights"
       /\ \E i \in 1..Len(a.lpTokens) : a.lpTokens[i] \notin DOMAIN c.pairs
  \/ a.actionType = "AddPair" /\ a.pairToAdd \in DOMAIN c.pairs
  \/ a.actionType = "RemovePair"
       /\ \/ a.pairToRemove \notin DOMAIN c.pairs
          \/ ~c.pairs[a.pairToRemove].isActive
          \/ c.pairs[a.pairToRemove].totalStaked > 0
  \/ a.actionType = "ChangeSigner"
       /\ (a.signerOp = "add") = (a.signerArg \in c.signers)

\* C1 as stated: for every existing action, execute succeeds if and only if
\* approvals >= requiredApprovals and the action is not executed.
C1_ExecuteIffApproved ==
  Connected =>
    \A id \in DOMAIN chain.actions :
       (executeAction(id).res = "ok")
         <=> (EnoughApprovals(id) /\ ~Action(id).executed)

\* C1 as amended: execute succeeds if and only if approvals >=
\* requiredApprovals, the action is not executed and its payload can be
\* applied; short of approvals it fails with InsufficientApprovals, on an
\* executed action with AlreadyExecuted, and a success sets executed.
C1_ExecuteIffApprovedAndApplicable ==
  Connected =>
    \A id \in DOMAIN chain.actions :
       LET r == executeAction(id)
       IN  /\ (r.res = "ok") <=> /\ EnoughApprovals(id)
                                 /\ ~Action(id).executed
                                 /\ ~PayloadFails(chain, Action(id))
           /\ (~Action(id).executed /\ ~EnoughApprovals(id))
                => r.res = "InsufficientApprovals"
           /\ Action(id).executed => r.res = "AlreadyExecuted"
           /\ r.res = "ok" => r.chain.actions[id].executed

\* Three signers, two approvals required: action 1 was approved twice and
\* executed, and a further execute fails with AlreadyExecuted.
C1_Witness ==
  /\ Connected
  /\ Cardinality(chain.signers) = 3
  /\ chain.requiredApprovals = 2
  /\ 1 \in DOMAIN chain.actions
  /\ Action(1).approvals = 2
  /\ Action(1).executed
  /\ executeAction(1).res = "AlreadyExecuted"

\* C2: the payload of every action is applied at most once, and every execute
\* call on an executed action fails with AlreadyExecuted and changes nothing.
C2_PayloadAppliedAtMostOnce ==
  \A id \in DOMAIN chain.actions :
     /\ chain.applied[id] <= 1
     /\ Action(id).executed <=> chain.applied[id] = 1
     /\ (Connected /\ Action(id).executed)
          => /\ executeAction(id).res = "AlreadyExecuted"
             /\ executeAction(id).chain = chain

\* Action 1 was executed by another client while the panel still shows it
\* with its Execute button enabled: a second execute is about to be issued.
C2_Witness ==
  /\ Connected
  /\ 1 \in DOMAIN chain.actions
  /\ Action(1).executed
  /\ chain.applied[1] = 1
  /\ ExecuteEnabled(1)

\* C3: executed only ever goes from false to true, and only in a step that is
\* a successful execute call on that action.
C3_ExecutedOnlyByExecute ==
  [][\A id \in DOMAIN chain.actions :
       /\ Action(id).executed => chain'.actions[id].executed
       /\ (~Action(id).executed /\ chain'.actions[id].executed)
            => /\ execute(chain, id).res = "ok"
               /\ chain' = execute(chain, id).chain]_vars

\* One action was executed while another, with enough approvals and a payload
\* that applies, still waits for an execute call.
C3_Witness ==
  \E i, j \in DOMAIN chain.actions :
     /\ Action(i).executed
     /\ ~Action(j).executed
     /\ EnoughApprovals(j)
     /\ ~PayloadFails(chain, Action(j))

\* C4: approvals is the number of distinct signers in approvedBy.
C4_ApprovalsCountApprovers ==
  \A id \in DOMAIN chain.actions :
     Action(id).approvals = Cardinality(Action(id).approvedBy)

\* An action two signers approved.
C4_Witness ==
  \E id \in DOMAIN chain.actions :
     /\ Action(id).approvals = 2
     /\ Action(id).approvedBy = {"A", "B"}

\* C5 as stated: a signer who is already in an action's approvedBy set and
\* calls approve on it again gets AlreadyApproved, and approvals and
\* approvedBy of the action stay as they were.
C5_SecondApproveAlreadyApproved ==
  Connected =>
    \A id \in DOMAIN chain.actions :
       \A who \in Action(id).approvedBy \cap chain.signers :
          LET r == approveAction(who, id)
          IN  /\ r.res = "AlreadyApproved"
              /\ r.chain.actions[id].approvals = Action(id).approvals
              /\ r.chain.actions[id].approvedBy = Action(id).approvedBy

\* C5 as amended: the second approve of a signer already in approvedBy fails
\* with AlreadyApproved while the action is not executed and with
\* AlreadyExecuted once it is; it never succeeds, and approvals and
\* approvedBy stay as they were.
C5_SecondApproveFails ==
  Connected =>
    \A id \in DOMAIN chain.actions :
       \A who \in Action(id).approvedBy \cap chain.signers :
          LET r == approveAction(who, id)
          IN  /\ ~Action(id).executed => r.res = "AlreadyApproved"
              /\ Action(id).executed => r.res = "AlreadyExecuted"
              /\ r.res # "ok"
              /\ r.chain.actions[id].approvals = Action(id).approvals
              /\ r.chain.actions[id].approvedBy = Action(id).approvedBy

\* Signer A approved action 1, which is not executed: A's second approve is
\* the call the claim is about.
C5_Witness ==
  /\ Connected
  /\ 1 \in DOMAIN chain.actions
  /\ "A" \in Action(1).approvedBy
  /\ "A" \in chain.signers
  /\ ~Action(1).executed
  /\ approveAction("A", 1).res = "AlreadyApproved"

\* What approve requires of its arguments besides a first approval.
ApproveAllowed(who, id) ==
  /\ who \in chain.signers
  /\ id \in DOMAIN chain.actions
  /\ ~Action(id).executed

\* C6: approve succeeds only for a current signer on an existing action that
\* is not executed; a caller outside the signer set gets NotASigner, an id
\* that does not exist gets UnknownAction, an executed action gets
\* AlreadyExecuted, every failure leaves the whole state unchanged, and the
\* approvals of an executed action never change again.
C6_ApproveRequirements ==
  /\ [](Connected =>
         \A who \in Identity : \A id \in 0..(chain.actionCounter + 1) :
            LET r == approveAction(who, id)
            IN  /\ r.res = "ok" => ApproveAllowed(who, id)
                /\ who \notin chain.signers => r.res = "NotASigner"
                /\ (who \in chain.signers /\ id \notin DOMAIN chain.actions)
                     => r.res = "UnknownAction"
                /\ (who \in chain.signers /\ id \in DOMAIN chain.actions
                      /\ Action(id).executed)
                     => r.res = "AlreadyExecuted"
                /\ r.res # "ok" => r.chain = chain)
  /\ [][\A id \in DOMAIN chain.actions :
          Action(id).executed
            => /\ chain'.actions[id].approvals = Action(id).approvals
               /\ chain'.actions[id].approvedBy = Action(id).approvedBy]_vars

\* Action 1 is executed and D is not a signer: the three failures the claim
\* names are each returned to some caller.
C6_Witness ==
  /\ Connected
  /\ 1 \in DOMAIN chain.actions
  /\ Action(1).executed
  /\ "D" \notin chain.signers
  /\ approveAction("D", 1).res = "NotASigner"
  /\ approveAction("C", chain.actionCounter + 1).res = "UnknownAction"
  /\ approveAction("C", 1).res = "AlreadyExecuted"

\* C7: the existing action ids are exactly 1..actionCounter; propose
\* allocates actionCounter + 1 with approvals 0 and executed false and leaves
\* the earlier actions alone; the panel's listing of ids 1..counter holds
\* every action once, the row at 0-based position i having id i + 1.
C7_DenseActionIds ==
  /\ DOMAIN chain.actions = 1..chain.actionCounter
  /\ \A id \in DOMAIN chain.actions : Action(id).id = id
  /\ Connected =>
       LET r == proposeSetDailyRewardRate("A", 2)
           n == chain.actionCounter + 1
       IN  r.res = "ok" =>
             /\ r.chain.actionCounter = n
             /\ DOMAIN r.chain.actions = 1..n
             /\ r.chain.actions[n].id = n
             /\ r.chain.actions[n].approvals = 0
             /\ r.chain.actions[n].approvedBy = {}
             /\ ~r.chain.actions[n].executed
             /\ \A id \in DOMAIN chain.actions : r.chain.actions[id] = Action(id)
  /\ panel.actionCounter # Undefined
       => Len(panel.proposals) = panel.actionCounter
  /\ \A k \in 1..Len(panel.proposals) : panel.proposals[k].id = k
  /\ \A k \in 1..Len(load.tmpProposals) : load.tmpProposals[k].id = k

\* The panel lists two actions, the first of them executed, after a reload
\* that followed approvals and an execution.
C7_Witness ==
  /\ chain.actionCounter = 2
  /\ Len(panel.proposals) = 2
  /\ panel.proposals[1].executed
  /\ panel.proposals[2].id = 2

\* C8: execute on an action with enough approvals whose payload cannot be
\* applied fails, executed stays false and nothing of the payload is applied:
\* pools, totalWeight, dailyRewardRate and signers are as before the call.
C8_PayloadFailureIsAtomic ==
  Connected =>
    \A id \in DOMAIN chain.actions :
       (EnoughApprovals(id) /\ ~Action(id).executed
          /\ PayloadFails(chain, Action(id)))
         => LET r == executeAction(id)
            IN  /\ r.res \in Failures
                /\ ~r.chain.actions[id].executed
                /\ r.chain.pairs = chain.pairs
                /\ r.chain.totalWeight = chain.totalWeight
                /\ r.chain.dailyRewardRate = chain.dailyRewardRate
                /\ r.chain.signers = chain.signers
                /\ r.chain = chain

\* An UpdatePairWeights action naming the known pool X and the unknown pool
\* Z has enough approvals, and its execute fails with UnknownPool.
C8_Witness ==
  /\ Connected
  /\ \E id \in DOMAIN chain.actions :
        /\ Action(id).actionType = "UpdatePairWeights"
        /\ Action(id).lpTokens = <<"X", "Z">>
        /\ "X" \in DOMAIN chain.pairs
        /\ "Z" \notin DOMAIN chain.pairs
        /\ chain.pairs["X"].weight # Action(id).weights[1]
        /\ EnoughApprovals(id)
        /\ ~Action(id).executed
        /\ executeAction(id).res = "UnknownPool"

\* A failed call: a typed failure, and the storage it leaves is the storage
\* it found.
FailsClean(r) ==
  /\ r.res \in Failures
  /\ r.chain = chain

\* A call either succeeds or fails clean.
OkOrClean(r) == r.res = "ok" \/ FailsClean(r)

\* Arguments the calls below are tried with.
TriedAmounts == {-1, 0, 1, 2}

TriedIds == 0..(chain.actionCounter + 1)

TriedLists ==
  { <<<<"X", "Y">>, <<0, 0>>>>, <<<<"X", "Z">>, <<2, 1>>>>, <<<<"Z">>, <<1>>>> }

\* C9: every operation of the ledger and of the queue that fails leaves the
\* whole storage as it was and reports one of the typed failures; a call whose
\* requirement does not hold fails, it does not return a default value.
C9_FailureLeavesStateUnchanged ==
  /\ \A who \in Stakers, lpToken \in LpToken, amount \in TriedAmounts :
        /\ OkOrClean(stake(who, lpToken, amount))
        /\ OkOrClean(unstake(who, lpToken, amount))
        /\ OkOrClean(claimRewards(who, lpToken))
        /\ ( \/ ~Connected
             \/ amount <= 0
             \/ lpToken \notin DOMAIN chain.pairs
             \/ ~chain.pairs[lpToken].isActive )
             => FailsClean(stake(who, lpToken, amount))
        /\ ( \/ ~Connected
             \/ amount <= 0
             \/ parseEther(amount) > Position(chain, who, lpToken).amount )
             => FailsClean(unstake(who, lpToken, amount))
        /\ ~Connected => FailsClean(claimRewards(who, lpToken))
  /\ \A who \in Identity :
        /\ \A rate \in {-1, 0, 2} :
              /\ OkOrClean(proposeSetDailyRewardRate(who, rate))
              /\ (~Connected \/ who \notin chain.signers)
                   => FailsClean(proposeSetDailyRewardRate(who, rate))
        /\ \A l \in TriedLists :
              /\ OkOrClean(proposeUpdatePairWeights(who, l[1], l[2]))
              /\ (~Connected \/ who \notin chain.signers)
                   => FailsClean(proposeUpdatePairWeights(who, l[1], l[2]))
        /\ \A lpToken \in LpToken :
              /\ OkOrClean(proposeAddPair(who, lpToken, 1))
              /\ OkOrClean(proposeRemovePair(who, lpToken))
              /\ who \notin chain.signers
                   => FailsClean(proposeRemovePair(who, lpToken))
        /\ \A id \in TriedIds :
              /\ OkOrClean(approveAction(who, id))
              /\ ( \/ ~Connected
                   \/ who \notin chain.signers
                   \/ id \notin DOMAIN chain.actions
                   \/ Action(id).executed
                   \/ who \in Action(id).approvedBy )
                   => FailsClean(approveAction(who, id))
        /\ OkOrClean(changeSigner(chain, "add", who))
        /\ OkOrClean(changeSigner(chain, "remove", who))
  /\ \A id \in TriedIds :
        /\ OkOrClean(executeAction(id))
        /\ ( \/ ~Connected
             \/ id \notin DOMAIN chain.actions
             \/ Action(id).executed
             \/ ~EnoughApprovals(id)
             \/ PayloadFails(chain, Action(id)) )
             => FailsClean(executeAction(id))
  /\ \A lpToken \in LpToken :
        /\ OkOrClean(addPool(chain, lpToken, 1))
        /\ OkOrClean(removePool(chain, lpToken))
        /\ lpToken \in DOMAIN chain.pairs => FailsClean(addPool(chain, lpToken, 1))
        /\ lpToken \notin DOMAIN chain.pairs => FailsClean(removePool(chain, lpToken))
  /\ \A l \in TriedLists :
        /\ OkOrClean(updateWeights(chain, l[1], l[2]))
        /\ (\E i \in 1..Len(l[1]) : l[1][i] \notin DOMAIN chain.pairs)
             => FailsClean(updateWeights(chain, l[1], l[2]))
  /\ \A rate \in {-1, 0, 2} :
        /\ OkOrClean(setDailyRewardRate(chain, rate))
        /\ rate < 0 => FailsClean(setDailyRewardRate(chain, rate))

\* Wallet A holds a stake in X whose checkpoint lies in the past and an
\* action waits short of approvals: unstaking more than the stake, staking
\* zero, staking into the unknown pool Z and executing the action all fail.
C9_Witness ==
  /\ Connected
  /\ Position(chain, "A", "X").amount = parseEther(1)
  /\ Position(chain, "A", "X").lastRewardTime < now
  /\ unstake("A", "X", 2).res = "InsufficientStake"
  /\ stake("A", "X", 0).res = "InvalidAmount"
  /\ stake("A", "Z", 1).res = "PoolInactive"
  /\ 1 \in DOMAIN chain.actions
  /\ executeAction(1).res = "InsufficientApprovals"

\* The sum of weight over the pools of S that are active.
RECURSIVE ActiveWeight(_)
ActiveWeight(S) ==
  IF S = {} THEN 0
  ELSE LET p == CHOOSE x \in S : TRUE
       IN  (IF p \in DOMAIN chain.pairs /\ chain.pairs[p].isActive
            THEN chain.pairs[p].weight ELSE 0) + ActiveWeight(S \ {p})

\* C10: totalWeight, in storage and as getTotalWeight reads it, is the sum of
\* weight over exactly the active pools; an inactive pool's weight adds
\* nothing.
C10_TotalWeightSumsActivePools ==
  /\ chain.totalWeight = ActiveWeight(LpToken)
  /\ Connected => getTotalWeight.value = ActiveWeight(LpToken)

\* Pool X was removed with its weight still recorded and pool Y was added:
\* totalWeight is Y's weight alone.
C10_Witness ==
  /\ Connected
  /\ ~chain.pairs["X"].isActive
  /\ chain.pairs["X"].weight > 0
  /\ "Y" \in DOMAIN chain.pairs
  /\ chain.pairs["Y"].isActive
  /\ chain.totalWeight = chain.pairs["Y"].weight
  /\ chain.totalWeight # chain.pairs["X"].weight + chain.pairs["Y"].weight

\* The amount a position holds, and the stake a pool holds (0 for a pool that
\* does not exist).
Amount(c, user, lpToken) == Position(c, user, lpToken).amount

TotalStaked(c, lpToken) ==
  IF lpToken \in DOMAIN c.pairs THEN c.pairs[lpToken].totalStaked ELSE 0

\* C11: a position's amount is the sum of the successful stakes minus the sum
\* of the successful unstakes: a successful stake adds exactly its amount, a
\* successful unstake takes exactly its amount, an unstake above the held
\* amount fails with InsufficientStake and changes neither the position nor
\* totalStaked, and no other step changes the amount.
C11_AmountIsStakedMinusUnstaked ==
  /\ [](Connected =>
         \A user \in Stakers, lpToken \in LpToken, amount \in {1, 2} :
            LET s == stake(user, lpToken, amount)
                u == unstake(user, lpToken, amount)
            IN  /\ s.res = "ok" =>
                     /\ Amount(s.chain, user, lpToken)
                          = Amount(chain, user, lpToken) + parseEther(amount)
                     /\ TotalStaked(s.chain, lpToken)
                          = TotalStaked(chain, lpToken) + parseEther(amount)
                /\ u.res = "ok" =>
                     /\ Amount(u.chain, user, lpToken)
                          = Amount(chain, user, lpToken) - parseEther(amount)
                     /\ TotalStaked(u.chain, lpToken)
                          = TotalStaked(chain, lpToken) - parseEther(amount)
                /\ parseEther(amount) > Amount(chain, user, lpToken) =>
                     /\ u.res = "InsufficientStake"
                     /\ Position(u.chain, user, lpToken)
                          = Position(chain, user, lpToken)
                     /\ TotalStaked(u.chain, lpToken) = TotalStaked(chain, lpToken)
                /\ parseEther(amount) <= Amount(chain, user, lpToken)
                     => u.res = "ok")
  /\ [][\A user \in Stakers, lpToken \in LpToken :
          \/ Amount(chain', user, lpToken) = Amount(chain, user, lpToken)
          \/ \E amount \in {1, 2} :
                \/ /\ stake(user, lpToken, amount).res = "ok"
                   /\ chain' = stake(user, lpToken, amount).chain
                \/ /\ unstake(user, lpToken, amount).res = "ok"
                   /\ chain' = unstake(user, lpToken, amount).chain]_vars

\* Both wallets hold one ether in X at a later time: A's unstake of two
\* ether is above its amount, its unstake of one is not.
C11_Witness ==
  /\ Connected
  /\ now > 0
  /\ Amount(chain, "A", "X") = parseEther(1)
  /\ Amount(chain, "D", "X") = parseEther(1)
  /\ TotalStaked(chain, "X") = parseEther(2)
  /\ unstake("A", "X", 2).res = "InsufficientStake"
  /\ unstake("A", "X", 1).res = "ok"

\* C12: claimRewards followed at once by pendingRewards for the same user and
\* pool gives zero, and a second claim at once pays zero.
C12_ClaimThenPendingIsZero ==
  Connected =>
    \A user \in Stakers, lpToken \in LpToken :
       LET r == claimRewards(user, lpToken)
       IN  /\ r.res = "ok"
           /\ r.value = pendingRewards(chain, now, user, lpToken)
           /\ pendingRewards(r.chain, now, user, lpToken) = 0
           /\ ClaimRewards(r.chain, now, user, lpToken).value = 0

\* Wallet A has a reward to claim in X, part of it accrued since its
\* checkpoint.
C12_Witness ==
  /\ Connected
  /\ pendingRewards(chain, now, "A", "X") > 0
  /\ Accrued(chain, now, "A", "X") > 0
  /\ claimRewards("A", "X").value > 0

\* The store of the scenario: X weight 10, Y weight 30, dailyRewardRate 100,
\* and A the sole staker of X with 50 staked at time 0.
ScenarioChain ==
  LET c1 == updateWeights(InitChain, <<"X">>, <<10>>).chain
      c2 == addPool(c1, "Y", 30).chain
      c3 == setDailyRewardRate(c2, 100).chain
  IN  Stake(c3, 0, "A", "X", 50).chain

\* C13: pendingRewards is the materialized pending amount plus
\* elapsed * dailyRewardRate * weight / totalWeight * amount / totalStaked at
\* the current parameters: exactly that when the divisions leave no
\* remainder, rounded down by less than two units otherwise; in the scenario
\* the value after one day is 25.
C13_PendingRewardsFormula ==
  /\ \A user \in Stakers, lpToken \in DOMAIN chain.pairs :
        LET pos     == Position(chain, user, lpToken)
            tw      == chain.totalWeight
            ts      == chain.pairs[lpToken].totalStaked
            product == (now - pos.lastRewardTime) * chain.dailyRewardRate
                         * chain.pairs[lpToken].weight
            term    == pendingRewards(chain, now, user, lpToken) - pos.pendingRewards
        IN  (tw > 0 /\ ts > 0) =>
              /\ term * tw * ts <= product * pos.amount
              /\ product * pos.amount < (term + 2) * tw * ts
              /\ (product % tw = 0 /\ ((product \div tw) * pos.amount) % ts = 0)
                   => term * tw * ts = product * pos.amount
  /\ ScenarioChain.totalWeight = 40
  /\ pendingRewards(ScenarioChain, 1, "A", "X") = 25

\* A rate change was executed, and a day after its stake wallet A has a
\* reward accrued in X that is not yet materialized.
C13_Witness ==
  /\ now > Position(chain, "A", "X").lastRewardTime
  /\ Amount(chain, "A", "X") > 0
  /\ chain.dailyRewardRate # InitChain.dailyRewardRate
  /\ Position(chain, "A", "X").pendingRewards = 0
  /\ pendingRewards(chain, now, "A", "X") > 0

\* A divisor of the accrual of pool lpToken is zero.
ZeroDivisor(lpToken) ==
  chain.totalWeight = 0 \/ chain.pairs[lpToken].totalStaked = 0

\* C14: where totalWeight or the pool's totalStaked is zero, pendingRewards,
\* stake, unstake and claimRewards end as their requirements say, none with a
\* division fault, and the accrued term is zero: what is pending, claimed or
\* settled is the materialized pending amount.
C14_ZeroDivisorsAreGuarded ==
  Connected =>
    \A user \in Stakers, lpToken \in DOMAIN chain.pairs :
       ZeroDivisor(lpToken) =>
         LET pos == Position(chain, user, lpToken)
             s   == stake(user, lpToken, 1)
             u   == unstake(user, lpToken, 1)
             r   == claimRewards(user, lpToken)
         IN  /\ pendingRewards(chain, now, user, lpToken) = pos.pendingRewards
             /\ s.res = IF chain.pairs[lpToken].isActive THEN "ok" ELSE "PoolInactive"
             /\ s.res = "ok" =>
                  Position(s.chain, user, lpToken).pendingRewards = pos.pendingRewards
             /\ u.res = IF parseEther(1) <= pos.amount THEN "ok"
                        ELSE "InsufficientStake"
             /\ u.res = "ok" =>
                  Position(u.chain, user, lpToken).pendingRewards = pos.pendingRewards
             /\ r.res = "ok"
             /\ r.value = pos.pendingRewards

\* Both weights were set to zero while wallet A holds a stake in X whose
\* checkpoint lies a day back, and nobody ever staked in Y.
C14_Witness ==
  /\ Connected
  /\ chain.totalWeight = 0
  /\ Amount(chain, "A", "X") > 0
  /\ chain.dailyRewardRate > 0
  /\ now > Position(chain, "A", "X").lastRewardTime
  /\ chain.pairs["Y"].totalStaked = 0
  /\ stake("A", "Y", 1).res = "ok"

PoolActive(lpToken) ==
  lpToken \in DOMAIN chain.pairs /\ chain.pairs[lpToken].isActive

\* C16: stake succeeds exactly when amount > 0 and the pool is active; it
\* fails with PoolInactive when only the pool is at fault, with InvalidAmount
\* when only the amount is, and with one of the two when both are; a success
\* settles the position up to now on the storage as it was and then raises
\* the position's amount and the pool's totalStaked by exactly the amount.
\* The modal's handler sends nothing for an amount of zero.
C16_StakeRequirements ==
  Connected =>
    \A user \in Stakers, lpToken \in LpToken, amount \in TriedAmounts :
       LET r == stake(user, lpToken, amount)
       IN  /\ (r.res = "ok") <=> (amount > 0 /\ PoolActive(lpToken))
           /\ (amount > 0 /\ ~PoolActive(lpToken)) => r.res = "PoolInactive"
           /\ (amount <= 0 /\ PoolActive(lpToken)) => r.res = "InvalidAmount"
           /\ (amount <= 0 /\ ~PoolActive(lpToken))
                => r.res \in {"PoolInactive", "InvalidAmount"}
           /\ r.res # "ok" => r.chain = chain
           /\ r.res = "ok" =>
                /\ Position(r.chain, user, lpToken)
                     = [amount |-> Amount(chain, user, lpToken) + parseEther(amount),
                        pendingRewards |-> pendingRewards(chain, now, user, lpToken),
                        lastRewardTime |-> now]
                /\ r.chain.pairs[lpToken].totalStaked
                     = chain.pairs[lpToken].totalStaked + parseEther(amount)
                /\ r.chain.pairs[lpToken].weight = chain.pairs[lpToken].weight
                /\ \A k \in DOMAIN chain.userStakes :
                      k # <<user, lpToken>>
                        => r.chain.userStakes[k] = chain.userStakes[k]
           /\ handleStake(user, lpToken, 0, 100, 1).chain = chain
           /\ handleStake(user, lpToken, Blank, 0, 1).chain = chain

\* Wallet A holds a stake in X with a reward accrued since its checkpoint, so
\* a further stake has something to settle; a stake of zero and a stake into
\* the unknown pool Z are refused.
C16_Witness ==
  /\ Connected
  /\ Amount(chain, "A", "X") > 0
  /\ Accrued(chain, now, "A", "X") > 0
  /\ stake("A", "X", 1).res = "ok"
  /\ Position(stake("A", "X", 1).chain, "A", "X").pendingRewards > 0
  /\ stake("A", "X", 0).res = "InvalidAmount"
  /\ stake("A", "Z", 1).res = "PoolInactive"

\* C17: claimRewards never fails: with nothing pending, also for a position
\* that was never staked, it returns zero and leaves zero pending; otherwise
\* it returns the settled amount and sets pendingRewards to zero.
C17_ClaimNeverFails ==
  Connected =>
    \A user \in Stakers, lpToken \in LpToken :
       LET p == pendingRewards(chain, now, user, lpToken)
           r == handleWithdraw(user, lpToken)
       IN  /\ r.res = "ok"
           /\ p = 0 => r.value = 0
           /\ p > 0 => r.value = p
           /\ Position(r.chain, user, lpToken).pendingRewards = 0
           /\ Amount(r.chain, user, lpToken) = Amount(chain, user, lpToken)

\* A day has passed, wallet D never staked anywhere, and wallet A has a
\* reward to claim in X.
C17_Witness ==
  /\ Connected
  /\ now > 0
  /\ \A lpToken \in LpToken :
        Position(chain, "D", lpToken)
          = [amount |-> 0, pendingRewards |-> 0, lastRewardTime |-> 0]
  /\ handleWithdraw("D", "X").value = 0
  /\ handleWithdraw("A", "X").value > 0

\* C18: addPool, removePool, updateWeights and setDailyRewardRate, called
\* directly or as the payload of an executed action, leave every position
\* record unchanged; a position changes only in a step that is a stake, an
\* unstake or a claimRewards call on that same user and pool.
C18_PoolAndRateChangesTouchNoPosition ==
  /\ [](/\ \A lpToken \in LpToken :
             /\ addPool(chain, lpToken, 1).chain.userStakes = chain.userStakes
             /\ removePool(chain, lpToken).chain.userStakes = chain.userStakes
        /\ \A l \in TriedLists :
             updateWeights(chain, l[1], l[2]).chain.userStakes = chain.userStakes
        /\ \A rate \in {-1, 0, 2} :
             setDailyRewardRate(chain, rate).chain.userStakes = chain.userStakes
        /\ \A id \in DOMAIN chain.actions :
             executeAction(id).chain.userStakes = chain.userStakes)
  /\ [][\A user \in Stakers, lpToken \in LpToken :
          \/ Position(chain', user, lpToken) = Position(chain, user, lpToken)
          \/ \E amount \in {1, 2} :
                \/ chain' = stake(user, lpToken, amount).chain
                \/ chain' = unstake(user, lpToken, amount).chain
          \/ chain' = claimRewards(user, lpToken).chain]_vars

\* A rate change was executed while wallet A's position in X went untouched:
\* its checkpoint lies in the past, nothing is materialized, and the reward
\* since the checkpoint waits for the position's next touch.
C18_Witness ==
  /\ Connected
  /\ 1 \in DOMAIN chain.actions
  /\ Action(1).actionType = "SetDailyRewardRate"
  /\ Action(1).executed
  /\ Amount(chain, "A", "X") > 0
  /\ Position(chain, "A", "X").lastRewardTime < now
  /\ Position(chain, "A", "X").pendingRewards = 0
  /\ Accrued(chain, now, "A", "X") > 0

\* The step is a successful execute call on an action of one of the kinds.
ExecutedStep(kinds) ==
  \E id \in DOMAIN chain.actions :
     /\ Action(id).actionType \in kinds
     /\ execute(chain, id).res = "ok"
     /\ chain' = execute(chain, id).chain

\* The pools and what governance sets of them: weight and active flag.
PoolSettings(c) ==
  [p \in DOMAIN c.pairs |-> <<c.pairs[p].weight, c.pairs[p].isActive>>]

\* The global parameters and the signer set are as in c.
SameGovernedState(c) ==
  /\ c.dailyRewardRate = chain.dailyRewardRate
  /\ PoolSettings(c) = PoolSettings(chain)
  /\ c.totalWeight = chain.totalWeight
  /\ c.signers = chain.signers
  /\ c.requiredApprovals = chain.requiredApprovals

\* C19: dailyRewardRate changes only in a successful execute of a
\* SetDailyRewardRate action, the pool set, the weights and totalWeight only
\* in a successful execute of an AddPair, RemovePair or UpdatePairWeights
\* action, the signer set and requiredApprovals only in a successful execute
\* of a ChangeSigner action; stake, unstake, claimRewards, propose and
\* approve, from the provider or from the admin page, change none of them.
C19_OnlyExecuteChangesParameters ==
  /\ [](/\ \A user \in Stakers, lpToken \in LpToken, amount \in TriedAmounts :
             /\ SameGovernedState(stake(user, lpToken, amount).chain)
             /\ SameGovernedState(unstake(user, lpToken, amount).chain)
             /\ SameGovernedState(claimRewards(user, lpToken).chain)
        /\ \A who \in Identity :
             /\ SameGovernedState(proposeSetDailyRewardRate(who, 2).chain)
             /\ SameGovernedState(proposeAddPair(who, "Y", 3).chain)
             /\ SameGovernedState(proposeUpdatePairWeights(who, <<"X">>, <<2>>).chain)
             /\ \A stakingContract \in {NULL, "connected"} :
                  /\ SameGovernedState(
                       handleProposeDailyRate(stakingContract, who, 2).chain)
                  /\ SameGovernedState(
                       handleProposeAddPair(stakingContract, who, "Y", 3).chain)
                  /\ \A id \in TriedIds :
                       SameGovernedState(
                         adminHandleApproveAction(stakingContract, who, id).chain)
             /\ \A id \in TriedIds :
                  SameGovernedState(approveAction(who, id).chain))
  /\ [][/\ chain'.dailyRewardRate # chain.dailyRewardRate
             => ExecutedStep({"SetDailyRewardRate"})
        /\ DOMAIN chain'.pairs # DOMAIN chain.pairs => ExecutedStep({"AddPair"})
        /\ (PoolSettings(chain') # PoolSettings(chain)
              \/ chain'.totalWeight # chain.totalWeight)
             => ExecutedStep({"AddPair", "RemovePair", "UpdatePairWeights"})
        /\ (chain'.signers # chain.signers
              \/ chain'.requiredApprovals # chain.requiredApprovals)
             => ExecutedStep({"ChangeSigner"})]_vars

\* An AddPair and a ChangeSigner action were both executed: the pool set and
\* the signer set differ from the initial ones, while wallet A staked.
C19_Witness ==
  /\ "Y" \in DOMAIN chain.pairs
  /\ chain.totalWeight # InitChain.totalWeight
  /\ chain.signers # InitialSigners
  /\ Amount(chain, "A", "X") > 0
  /\ \E i, j \in DOMAIN chain.actions :
        /\ Action(i).actionType = "AddPair" /\ Action(i).executed
        /\ Action(j).actionType = "ChangeSigner" /\ Action(j).executed

\* The storages that running the calls of S one after another, in any order,
\* leaves of storage c.
RECURSIVE SerialResults(_, _)
SerialResults(c, S) ==
  IF S = {} THEN {c}
  ELSE UNION { SerialResults(ApplyCall(c, call).chain, S \ {call}) : call \in S }

Progress(c, id) ==
  <<c.actions[id].approvals, c.actions[id].approvedBy, c.actions[id].executed>>

\* C21: approve and execute on action i leave approvals, approvedBy and
\* executed of every other action as they were, in the result of every call
\* and in every step; and an action with a higher id is approved and executed
\* as any other while one with a lower id is still unexecuted.
C21_ActionsAreIndependent ==
  /\ [](Connected =>
         \A i \in DOMAIN chain.actions :
            /\ \A j \in DOMAIN chain.actions \ {i} :
                  /\ Progress(executeAction(i).chain, j) = Progress(chain, j)
                  /\ \A who \in Identity :
                        Progress(approveAction(who, i).chain, j) = Progress(chain, j)
            /\ (\E k \in DOMAIN chain.actions : k < i /\ ~Action(k).executed) =>
                  /\ ~Action(i).executed =>
                       \A who \in chain.signers \ Action(i).approvedBy :
                          approveAction(who, i).res = "ok"
                  /\ ( /\ ~Action(i).executed
                       /\ EnoughApprovals(i)
                       /\ ~PayloadFails(chain, Action(i)) )
                       => executeAction(i).res = "ok")
  /\ [][\A i, j \in DOMAIN chain.actions :
          (i # j /\ Progress(chain', i) # Progress(chain, i))
            => Progress(chain', j) = Progress(chain, j)]_vars

\* Action 2 was approved and executed while action 1, also approved by a
\* signer, is still unexecuted.
C21_Witness ==
  /\ Connected
  /\ DOMAIN chain.actions = {1, 2}
  /\ Action(2).executed
  /\ Action(2).approvals = 2
  /\ ~Action(1).executed
  /\ Action(1).approvals = 1

\* The sum of the amounts the users of S hold in pool lpToken.
RECURSIVE SumOfAmounts(_, _)
SumOfAmounts(S, lpToken) ==
  IF S = {} THEN 0
  ELSE LET user == CHOOSE u \in S : TRUE
       IN  Amount(chain, user, lpToken) + SumOfAmounts(S \ {user}, lpToken)

\* C22: every position's amount is at least 0, every pool's totalStaked is
\* the sum of the amounts of all positions in it, and nothing is held in a
\* pool that does not exist.
C22_TotalStakedSumsAmounts ==
  /\ \A k \in DOMAIN chain.userStakes : chain.userStakes[k].amount >= 0
  /\ \A lpToken \in DOMAIN chain.pairs :
        chain.pairs[lpToken].totalStaked = SumOfAmounts(Stakers, lpToken)
  /\ \A lpToken \in LpToken \ DOMAIN chain.pairs : SumOfAmounts(Stakers, lpToken) = 0

\* Both wallets staked in X and wallet D unstaked again a day later with a
\* reward settled: the pool holds what A holds.
C22_Witness ==
  /\ Amount(chain, "A", "X") = parseEther(1)
  /\ Amount(chain, "D", "X") = 0
  /\ Position(chain, "D", "X").pendingRewards > 0
  /\ Position(chain, "D", "X").lastRewardTime > 0
  /\ chain.pairs["X"].totalStaked = parseEther(1)

\* C23, the proposals panel's half: a row's Execute button is enabled only
\* when the loaded snapshot shows the action unexecuted with at least the
\* loaded required approvals, which are the contract's.
PanelExecuteGuarded ==
  \A id \in 1..PanelMaxActions :
     ExecuteEnabled(id) =>
        /\ panel.requiredApprovals = chain.requiredApprovals
        /\ ~panel.proposals[id].executed
        /\ panel.proposals[id].approvals >= chain.requiredApprovals

\* C23, the admin page's half: the same of its Execute button and the
\* snapshot in actionDetails.
AdminExecuteGuarded ==
  adminExecuteEnabled =>
     /\ admin.requiredApprovals = chain.requiredApprovals
     /\ admin.actionDetails.loaded
     /\ ~admin.actionDetails.executed
     /\ admin.actionDetails.approvals >= chain.requiredApprovals

\* C23: in both governance views Execute is enabled only when the most
\* recently loaded snapshot shows the action unexecuted with approvals >=
\* the contract's required approvals, and never before the required
\* approvals have been loaded.
C23_ExecuteEnabledOnlyWhenApproved ==
  /\ PanelExecuteGuarded
  /\ AdminExecuteGuarded

\* The admin page shows an enabled Execute button for a snapshot without
\* approvals while its required approvals are still undefined.
C23_Witness ==
  /\ adminExecuteEnabled
  /\ admin.requiredApprovals = Undefined
  /\ admin.actionDetails.approvals = 0
  /\ admin.actionDetails.id = admin.actionId
  /\ admin.actionId \in DOMAIN chain.actions

\* C24, the refresh: the step that ends a panel handler replaces the row of
\* the handler's id by the record the handler read after its transaction,
\* and leaves every other row as it was.
RefreshSetsOneRow ==
  [][(handler.pc = "setProposals" /\ handler'.pc = "idle")
       => /\ Len(panel'.proposals) = Len(panel.proposals)
          /\ \A idx \in 1..Len(panel.proposals) :
                panel'.proposals[idx] =
                   IF idx = handler.id THEN handler.updatedProposal
                                       ELSE panel.proposals[idx]]_vars

\* A record of an action as it was before record `shown` was read: approvals
\* only grow and executed only becomes true.
OlderThan(record, shown) ==
  \/ record.approvals < shown.approvals
  \/ shown.executed /\ ~record.executed

\* C24, the reload: the step that ends loadContractData puts no older record
\* in the place of a displayed row.
ReloadKeepsRefreshedRows ==
  [][(load.pc # "idle" /\ load'.pc = "idle")
       => \A idx \in 1..Len(panel.proposals) :
             idx <= Len(panel'.proposals)
               => ~OlderThan(panel'.proposals[idx], panel.proposals[idx])]_vars

\* C24: after a successful approve or execute of action id from the panel
\* the displayed entry for id is the record read after the transaction and
\* every other entry is unchanged, and a reload in flight at the same time
\* that read the action before the transaction never overwrites the
\* refreshed entry with the older record.
C24_RefreshSurvivesReload ==
  /\ RefreshSetsOneRow
  /\ ReloadKeepsRefreshedRows

\* No call is in flight and the panel shows action 1 without the approval
\* that the contract holds: the row is older than the storage.
C24_Witness ==
  /\ handler.pc = "idle"
  /\ load.pc = "idle"
  /\ Len(panel.proposals) >= 1
  /\ 1 \in DOMAIN chain.actions
  /\ panel.proposals[1].approvals = 0
  /\ Action(1).approvedBy = {"A"}

\* The step is a press of Propose Weight Updates that sent a proposal.
Submitted == chain'.actionCounter = chain.actionCounter + 1

\* C25, the lists: the address list and the weight list have the same
\* length, at least 1.
RowsArePaired ==
  /\ Len(modal.updatePairAddresses) = Len(modal.updatePairWeights)
  /\ Len(modal.updatePairAddresses) >= 1

\* C25, a refusal: a press that fails a check sets an error message, sends
\* nothing and leaves the modal open.
RefusalKeepsModalOpen ==
  [][(ProposeEnabled /\ modal' # modal /\ modal'.error # modal.error
        /\ modal'.error # "Failed to propose weight updates. Please try again.")
       => /\ modal'.error # ""
          /\ chain' = chain
          /\ modal'.open]_vars

\* C25: handleProposeUpdateWeights submits a proposal only if every address
\* is well-formed, none occurs twice and every weight is non-empty and
\* within 0..maxWeight; a failed check sets an error, submits nothing and
\* leaves the modal open; the two lists have the same length, at least 1,
\* so each submitted address has exactly one weight.
C25_SubmitsOnlyValidWeightLists ==
  /\ []RowsArePaired
  /\ RefusalKeepsModalOpen
  /\ [][Submitted =>
          LET submitted == chain'.actions[chain'.actionCounter]
          IN  /\ \A i \in 1..Len(modal.updatePairAddresses) :
                    isAddress(modal.updatePairAddresses[i])
              /\ Cardinality(Range(modal.updatePairAddresses))
                   = Len(modal.updatePairAddresses)
              /\ modal.maxWeight # Undefined
              /\ validWeights(modal)
              /\ submitted.lpTokens = modal.updatePairAddresses
              /\ Len(submitted.weights) = Len(submitted.lpTokens)]_vars

\* The modal closed after it sent pool X with weight 1 although the loaded
\* maxWeight is 0.
C25_Witness ==
  /\ ~modal.open
  /\ modal.maxWeight = 0
  /\ modal.updatePairAddresses = <<"X">>
  /\ modal.updatePairWeights = <<1>>
  /\ chain.actionCounter = 1
  /\ chain.actions[1].lpTokens = <<"X">>
  /\ chain.actions[1].weights = <<parseEther(1)>>

\* How every call of the provider ends while the handle is null.
NotInitialized == Fail("Contract not initialized", chain)

\* C26, the null handle: each of the provider's sixteen functions rejects
\* with 'Contract not initialized' and leaves the storage alone.
NullHandleRejects ==
  contract = NULL =>
    /\ \A who \in Stakers, lpToken \in LpToken :
          /\ \A amount \in TriedAmounts :
                /\ stake(who, lpToken, amount) = NotInitialized
                /\ unstake(who, lpToken, amount) = NotInitialized
                /\ proposeAddPair(who, lpToken, amount) = NotInitialized
          /\ claimRewards(who, lpToken) = NotInitialized
          /\ getPairInfo(lpToken) = NotInitialized
    /\ \A who \in Identity :
          /\ \A rate \in TriedAmounts :
                proposeSetDailyRewardRate(who, rate) = NotInitialized
          /\ \A l \in TriedLists :
                proposeUpdatePairWeights(who, l[1], l[2]) = NotInitialized
          /\ \A id \in TriedIds :
                /\ approveAction(who, id) = NotInitialized
                /\ executeAction(id) = NotInitialized
    /\ \A user \in Stakers, lpToken \in LpToken :
          getUserStakeInfo(user, lpToken) = NotInitialized
    /\ getPairs = NotInitialized
    /\ getDailyRewardRate = NotInitialized
    /\ getTotalWeight = NotInitialized
    /\ getRewardToken = NotInitialized
    /\ getSigners = NotInitialized
    /\ getActionCounter = NotInitialized

\* C26, the writes: with a handle, a write resolves as its transaction
\* ended once mined, with the storage the transaction left, and rejects when
\* the transaction reverted.
WritesAwaitTheirTransaction ==
  Connected =>
    /\ \A who \in Stakers, lpToken \in LpToken :
          /\ \A amount \in TriedAmounts :
                /\ stake(who, lpToken, amount)
                     = Stake(chain, now, who, lpToken, parseEther(amount))
                /\ unstake(who, lpToken, amount)
                     = Unstake(chain, now, who, lpToken, parseEther(amount))
                /\ OkOrClean(proposeAddPair(who, lpToken, amount))
          /\ claimRewards(who, lpToken) = ClaimRewards(chain, now, who, lpToken)
    /\ \A who \in Identity :
          /\ \A rate \in TriedAmounts :
                OkOrClean(proposeSetDailyRewardRate(who, rate))
          /\ \A l \in TriedLists :
                OkOrClean(proposeUpdatePairWeights(who, l[1], l[2]))
          /\ \A id \in TriedIds :
                /\ approveAction(who, id) = approve(chain, id, who)
                /\ executeAction(id) = execute(chain, id)

\* C26, isLoading: it is true until the first initContract ends, false from
\* then on, and false whenever a handle or an error is set.
LoadingEndsWithInit ==
  /\ [](contract # NULL \/ error # NULL => ~isLoading)
  /\ [][(contract' # contract \/ error' # error \/ isLoading' # isLoading
           \/ ~isLoading) => ~isLoading']_vars

\* C26: while the handle is null every function of the provider rejects
\* with 'Contract not initialized' and issues no call; a write that is
\* issued resolves only when its transaction's wait() has; isLoading is
\* false once initContract finished, whether it connected, failed or was
\* skipped.
C26_NullHandleRejectsEveryCall ==
  /\ []NullHandleRejects
  /\ []WritesAwaitTheirTransaction
  /\ LoadingEndsWithInit

\* initContract failed: the handle is null, the error is set and isLoading
\* is false, while the queue holds an action that signer A could approve.
C26_Witness ==
  /\ contract = NULL
  /\ error = "Failed to initialize contract"
  /\ ~isLoading
  /\ 1 \in DOMAIN chain.actions
  /\ approve(chain, 1, "A").res = "ok"
  /\ approveAction("A", 1).res = "Contract not initialized"

====
